---- MODULE Spec2Model ----
(***************************************************************************)
(* Model of the soundbank container codec of src/convert.py:               *)
(* AudioEngine.parse_bnk (chunk scanner), the index build and the          *)
(* in-place patch loop of AudioEngine.patch_batch, the shrink search and   *)
(* AudioEngine.run_conversion's output probing, together with a            *)
(* convert_batch that the GUI runs on its own thread and that writes .wem  *)
(* files into the folder the patch run reads its replacements from, and    *)
(* AudioEngine.extract_batch.                                              *)
(*                                                                         *)
(* Byte buffers are sequences of byte values; a Python position p is the   *)
(* sequence index p + 1.  Files are byte sequences, NoFile when absent.    *)
(***************************************************************************)
EXTENDS Integers, Sequences, FiniteSets, TLC

\* ------------------------------------------------------------- bounds
\* largest used_size a record of a generated bank declares
MaxUsed == 2
\* largest replacement .wem file / transcoder output, in bytes
MaxWem == 3
\* payload bytes actually present in a generated DATA chunk
DataLen == 3
\* patch runs the user starts one after the other, each on the previous output
MaxRuns == 2

\* ------------------------------------------------------ byte helpers
Min(a, b) == IF a < b THEN a ELSE b
Max(a, b) == IF a > b THEN a ELSE b

\* struct.pack('<I', n)
LE32(n) == << n % 256, (n \div 256) % 256, (n \div 65536) % 256, (n \div 16777216) % 256 >>

\* struct.unpack('<I', s[p : p+4])[0] for a Python position p with p + 4 <= len(s)
U32(s, p) == s[p + 1] + 256 * s[p + 2] + 65536 * s[p + 3] + 16777216 * s[p + 4]

\* Python s[a:b] for 0 <= a, 0 <= b: both ends are clamped to len(s)
PySlice(s, a, b) ==
    LET lo == Min(a, Len(s))
        hi == Min(b, Len(s))
    IN  IF hi <= lo THEN << >> ELSE SubSeq(s, lo + 1, hi)

\* Python bytearray slice assignment s[a:b] = v for 0 <= a <= b: the clamped
\* range is replaced by v whatever the two lengths are, so the buffer grows
\* when the range runs past its end
PySetSlice(s, a, b, v) ==
    LET lo == Min(a, Len(s))
        hi == Max(lo, Min(b, Len(s)))
    IN  SubSeq(s, 1, lo) \o v \o SubSeq(s, hi + 1, Len(s))

\* struct.pack_into('<I', s, p, n) for p + 4 <= len(s)
PackInto(s, p, n) == [i \in 1..Len(s) |-> IF i > p /\ i <= p + 4 THEN LE32(n)[i - p] ELSE s[i]]

Zeros(n) == [i \in 1..n |-> 0]

\* ------------------------------------------------- container layout
TagDIDX == << 68, 73, 68, 88 >>
TagDATA == << 68, 65, 84, 65 >>
TagBKHD == << 66, 75, 72, 68 >>
TagHIRC == << 72, 73, 82, 67 >>

NoFile == << -1 >>

Chunk(tag, size, payload) == tag \o LE32(size) \o payload
Record(r) == LE32(r.id) \o LE32(r.off) \o LE32(r.used)

RECURSIVE Records(_)
Records(rs) == IF rs = << >> THEN << >> ELSE Record(Head(rs)) \o Records(Tail(rs))

\* the original asset bytes of a generated bank: distinct and non-zero
Payload(n) == [i \in 1..n |-> 10 + i]


\* a bank in which the index chunk precedes the data chunk
BankDidxData(recs) ==
    Chunk(TagDIDX, 12 * Len(recs), Records(recs)) \o Chunk(TagDATA, DataLen, Payload(DataLen))

\* a bank in which the data chunk precedes the index chunk
BankDataDidx(recs) ==
    Chunk(TagDATA, DataLen, Payload(DataLen)) \o Chunk(TagDIDX, 12 * Len(recs), Records(recs))

\* relative offsets of the generated records.  With the index first a slot lies
\* inside the DATA payload, straddles the end of the file or starts beyond it.
OffsInData == {0, 1, DataLen - 1, DataLen + 2}
OffsSecond == {0, 1, DataLen - 1}
\* With the data chunk first a relative offset can also reach the index chunk:
\* one byte before the used_size field of record 0, and the used_size field of
\* record 1.
OffBeforeOwnField == DataLen + 8 + 8 - 1
OffOtherField == DataLen + 8 + 12 + 8
OffsDataFirst == {0, OffBeforeOwnField, OffOtherField}

RecLists(offs1, offs2) ==
    { << r >> : r \in [id : {1}, off : offs1, used : 0..MaxUsed] }
    \cup { << r1, r2 >> : r1 \in [id : {1}, off : offs1, used : 0..MaxUsed],
                         r2 \in [id : {1, 2}, off : offs2, used : 0..MaxUsed] }

OneRec == [id |-> 1, off |-> 0, used |-> 1]

\* banks the scanner rejects, decodes with an ignored trailing byte, or whose
\* declared index size runs past the end of the file, and a bank laid out as
\* BKHD, DIDX, DATA, HIRC
SpecialBanks ==
    { Chunk(TagDIDX, 12, Record(OneRec)) \o Chunk(TagBKHD, 1, << 7 >>),
      Chunk(TagBKHD, 1, << 7 >>) \o Chunk(TagDATA, DataLen, Payload(DataLen)),
      Chunk(TagDIDX, 12, Record(OneRec)) \o Chunk(TagDATA, 0, << >>),
      Chunk(TagDIDX, 13, Record(OneRec) \o << 9 >>) \o Chunk(TagDATA, DataLen, Payload(DataLen)),
      Chunk(TagDATA, DataLen, Payload(DataLen)) \o Chunk(TagDIDX, 24, Record(OneRec) \o << 9, 9, 9, 9, 9 >>),
      Chunk(TagBKHD, 1, << 7 >>)
          \o Chunk(TagDIDX, 12, Record([id |-> 1, off |-> DataLen - 1, used |-> MaxUsed]))
          \o Chunk(TagDATA, DataLen, Payload(DataLen)) \o Chunk(TagHIRC, 2, << 8, 8 >>) }

Banks ==
    { BankDidxData(rs) : rs \in RecLists(OffsInData, OffsSecond) }
    \cup { BankDataDidx(rs) : rs \in RecLists(OffsDataFirst, {0}) }
    \cup SpecialBanks

\* banks of the shrink runs: every slot lies inside the DATA payload
ShrinkBanks ==
    { BankDidxData(<< [id |-> 1, off |-> 0, used |-> u] >>) : u \in 0..MaxUsed }
    \cup { BankDidxData(<< [id |-> 1, off |-> 0, used |-> 1], [id |-> 2, off |-> 1, used |-> u] >>) : u \in 1..MaxUsed }

\* ------------------------------------------------- replacement files
WemIds == {1, 2}

\* the bytes of the replacement file <id>.wem of n bytes: distinct, non-zero
WemBytes(id, n) == [i \in 1..n |-> 200 + 10 * id + i]

\* the bytes the transcoder produces in shrink attempt k when its output has n bytes
Blob(k, n) == [i \in 1..n |-> 100 + 10 * k + i]

\* ------------------------------------------------------------ state
VARIABLES
    runs,               \* the batches earlier patch runs were started on, oldest first
    bnk_paths,          \* the batch: a sequence of [name, bytes], the bank files on disk
    wem_files,          \* wem_dir: id -> the bytes of <id>.wem, NoFile when absent
    available_wems,     \* the keys of available_wems in dict order
    wavs,               \* ids for which a source <id>.wav exists
    can_shrink,         \* auto-shrink enabled, ffmpeg and the converter found
    tool_loc,           \* where the converter leaves its output: "output" or "cwd"
    temp_files,         \* temp_dir: id -> the bytes of t_<id>.wem, NoFile when absent
    cwd_files,          \* working directory: id -> the bytes of t_<id>.wem
    transcoded,         \* what the converter wrote in its latest run, NoFile if nothing
    pc,                 \* position in patch_batch
    b,                  \* index of the bank being processed
    data,               \* the bytearray of the bank being patched
    didx_offset, didx_size, data_payload_start,
    bnk_index,          \* id -> [didx_pos, file_offset, max_size]
    k,                  \* position in available_wems
    att,                \* shrink attempt, 1..5
    final_inject_path,  \* "wem" (the replacement file) or "t_wem" (the shrink output)
    current_size,
    files_patched, total_patched,
    out_files,          \* output_dir: bank file name -> bytes, NoFile when not written
    log,                \* the last line given to log_func, with the values it reports
    unreadable,         \* ids whose <id>.wem in wem_dir cannot be opened for reading
    ex_pc,              \* position in extract_batch
    ex_b,               \* index of the bank extract_batch is at
    ex_i,               \* index of the record extract_batch is at
    ex_data,            \* the bytearray extract_batch parsed
    ex_files,           \* base_output_folder: bank name -> id -> bytes of <id>.wem
    ex_count,           \* files written for the bank extract_batch is at
    ex_total,           \* files written by extract_batch so far
    ex_log              \* the last line extract_batch gave to log_func

\* the state of the extract_batch thread
extraction == << ex_pc, ex_b, ex_i, ex_data, ex_files, ex_count, ex_total, ex_log >>

vars == << runs, bnk_paths, wem_files, available_wems, wavs, can_shrink, tool_loc, unreadable, temp_files,
           cwd_files, transcoded, pc, b, data, didx_offset, didx_size, data_payload_start, bnk_index,
           k, att, final_inject_path, current_size, files_patched, total_patched,
           out_files, log, extraction >>

BankNames == {"a.bnk", "b.bnk"}

\* ------------------------------------------------------ ChunkScanner
\* the while loop of parse_bnk from cursor `offset` on; st holds didx_offset,
\* didx_size and data_payload_start
RECURSIVE Scan(_, _, _)
Scan(d, offset, st) ==
    IF offset < Len(d) - 8
    THEN LET chunk_id == PySlice(d, offset, offset + 4)
             chunk_size == U32(d, offset + 4)
             st2 == IF chunk_id = TagDIDX
                    THEN [st EXCEPT !.didx_offset = offset + 8, !.didx_size = chunk_size]
                    ELSE IF chunk_id = TagDATA
                         THEN [st EXCEPT !.data_payload_start = offset + 8]
                         ELSE st
         IN  Scan(d, offset + 8 + chunk_size, st2)
    ELSE st

\* parse_bnk on the bytes of a readable file
parse_bnk(d) == Scan(d, 0, [didx_offset |-> -1, didx_size |-> 0, data_payload_start |-> -1])

\* the test with the DATA half left out
InvalidContainerLoose(st) == st.didx_offset = -1

\* line 376: either chunk was never found
InvalidContainer(st) == st.didx_offset = -1 \/ st.data_payload_start = -1

\* -------------------------------------------------------- AssetIndex
num_files(dsize) == dsize \div 12

\* struct.unpack('<III', d[pos:pos+12]) raises struct.error on a short slice
DecodeError(d, doff, dsize) ==
    \E i \in 0..(num_files(dsize) - 1) : doff + i * 12 + 12 > Len(d)

\* the index after records 0..n-1: a later record with the same id overwrites
RECURSIVE IndexUpTo(_, _, _)
IndexUpTo(d, doff, n) ==
    IF n = 0 THEN << >>
    ELSE LET prev == IndexUpTo(d, doff, n - 1)
             pos == doff + (n - 1) * 12
             fid == U32(d, pos)
             slot == [didx_pos |-> pos, file_offset |-> U32(d, pos + 4), max_size |-> U32(d, pos + 8)]
         IN  [x \in (DOMAIN prev) \cup {fid} |-> IF x = fid THEN slot ELSE prev[x]]

\* mutant: every capacity is recorded one byte larger than the record's used_size
BuildIndexLoose(d, doff, dsize) ==
    LET ix == IndexUpTo(d, doff, num_files(dsize))
    IN  [id \in DOMAIN ix |-> [ix[id] EXCEPT !.max_size = @ + 1]]

BuildIndex(d, doff, dsize) == IndexUpTo(d, doff, num_files(dsize))

\* a log line: its kind and the asset id and sizes it reports
Line(ev, id, size, max) == [ev |-> ev, id |-> id, size |-> size, max |-> max]

\* ------------------------------------------------------------- Init
NoFiles == [id \in WemIds |-> NoFile]

\* every order in which the directory listing can yield the given ids
Orders(S) ==
    { q \in UNION { [1..n -> S] : n \in 0..Cardinality(S) } :
        Len(q) = Cardinality(S) /\ \A i, j \in 1..Len(q) : i # j => q[i] # q[j] }

\* wem_dir holds a replacement of 1..MaxWem bytes for asset 1, and possibly a
\* one-byte replacement for asset 2
WemDirs ==
    { [id \in WemIds |-> IF id = 1 THEN f1 ELSE f2] :
        f1 \in {NoFile} \cup { WemBytes(1, n) : n \in 1..MaxWem },
        f2 \in {NoFile, WemBytes(2, 1)} }

Present(files) == { id \in WemIds : files[id] # NoFile }

\* the state patch_batch is in when it enters the loop over bnk_paths
InitRest ==
    /\ runs = << >>
    /\ temp_files = NoFiles
    /\ cwd_files = NoFiles
    /\ transcoded = NoFile
    /\ pc = "scan"
    /\ b = 1
    /\ data = << >>
    /\ didx_offset = -1
    /\ didx_size = 0
    /\ data_payload_start = -1
    /\ bnk_index = << >>
    /\ k = 1
    /\ att = 1
    /\ final_inject_path = "wem"
    /\ current_size = 0
    /\ files_patched = 0
    /\ total_patched = 0
    /\ out_files = [n \in BankNames |-> NoFile]
    /\ log = Line("start", 0, 0, 0)
    /\ ex_pc = "scan"
    /\ ex_b = 1
    /\ ex_i = 0
    /\ ex_data = << >>
    /\ ex_files = [n \in BankNames |-> NoFiles]
    /\ ex_count = 0
    /\ ex_total = 0
    /\ ex_log = Line("start", 0, 0, 0)

InitCommon ==
    /\ unreadable = {}
    /\ wem_files \in WemDirs
    /\ available_wems \in Orders(Present(wem_files))
    /\ InitRest

\* one bank of any shape, auto-shrink off
InitPlain ==
    /\ bnk_paths \in { << [name |-> "a.bnk", bytes |-> bk] >> : bk \in Banks }
    /\ can_shrink = FALSE
    /\ tool_loc = "output"
    /\ wavs = {}
    /\ InitCommon

\* one bank with every slot inside the DATA payload, auto-shrink on
InitShrink ==
    /\ bnk_paths \in { << [name |-> "a.bnk", bytes |-> bk] >> : bk \in ShrinkBanks }
    /\ can_shrink = TRUE
    /\ tool_loc \in {"output", "cwd"}
    /\ wavs \in {{}, {1}}
    /\ InitCommon

\* extract_batch, lines 400-411, after records 0..n-1: <fid>.wem holds the slice
\* of the last record with that id
RECURSIVE ExtractUpTo(_, _, _)
ExtractUpTo(d, st, n) ==
    IF n = 0 THEN NoFiles
    ELSE LET prev == ExtractUpTo(d, st, n - 1)
             pos == st.didx_offset + (n - 1) * 12
             fid == U32(d, pos)
             abs_start == st.data_payload_start + U32(d, pos + 4)
             blob == PySlice(d, abs_start, abs_start + U32(d, pos + 8))
         IN  [x \in WemIds |-> IF x = fid THEN blob ELSE prev[x]]

ExtractAll(d) == ExtractUpTo(d, parse_bnk(d), num_files(parse_bnk(d).didx_size))

Extractable(d) ==
    /\ ~InvalidContainer(parse_bnk(d))
    /\ ~DecodeError(d, parse_bnk(d).didx_offset, parse_bnk(d).didx_size)

\* one bank, and as wem_dir the folder extract_batch wrote for that very bank
InitRoundTrip ==
    /\ bnk_paths \in { << [name |-> "a.bnk", bytes |-> bk] >> : bk \in { x \in Banks : Extractable(x) } }
    /\ wem_files = ExtractAll(bnk_paths[1].bytes)
    /\ unreadable = {}
    /\ can_shrink = FALSE
    /\ tool_loc = "output"
    /\ wavs = {}
    /\ available_wems \in Orders(Present(wem_files))
    /\ InitRest

Init == InitPlain \/ InitShrink \/ InitRoundTrip

\* ---------------------------------------------------------- Patcher
\* lines 508-510: the two slice assignments.  `size` is the measured size of
\* the file, new_content the bytes read from it.
Overwrite(d, abs_start, size, max_size, new_content) ==
    LET d1 == PySetSlice(d, abs_start, abs_start + size, new_content)
        padding == max_size - size
    IN  IF padding > 0
        THEN PySetSlice(d1, abs_start + size, abs_start + max_size, Zeros(padding))
        ELSE d1

\* line 511 raises struct.error: the buffer ends before the used_size field does
PackRaises(d, abs_start, size, max_size, didx_pos, new_content) ==
    didx_pos + 12 > Len(Overwrite(d, abs_start, size, max_size, new_content))

\* mutant: the used_size stored is one more than the size measured
InjectBytesStoresOneMore(d, abs_start, size, max_size, didx_pos, new_content) ==
    PackInto(Overwrite(d, abs_start, size, max_size, new_content), didx_pos + 8, size + 1)

\* lines 508-511: overwrite the slot, zero-fill the rest of it, rewrite used_size
InjectBytes(d, abs_start, size, max_size, didx_pos, new_content) ==
    PackInto(Overwrite(d, abs_start, size, max_size, new_content), didx_pos + 8, size)

\* mutant: the fit check lets a replacement one byte over the capacity through
TooBigOffByOne(size, max_size) == size > max_size + 1

\* the replacement is too big for the slot (line 481)
TooBig(size, max_size) == size > max_size

\* ----------------------------------------------------- ShrinkStrategy
attempts == << << 44100, 1 >>, << 32000, 2 >>, << 32000, 1 >>, << 24000, 1 >>, << 22050, 1 >> >>

\* what the converter can leave behind in one run: nothing, or a blob
ToolOutputs(a) == {NoFile} \cup { Blob(a, n) : n \in 1..MaxWem }

\* the converter's own effect on the two directories
ToolWrites(files, loc, id, produced) ==
    IF produced # NoFile /\ tool_loc = loc THEN [files EXCEPT ![id] = produced] ELSE files

\* run_conversion's probe of possible_locs: the expected path first, then the
\* working directory
Found(temp, cwd, id) ==
    IF temp[id] # NoFile THEN "output" ELSE IF cwd[id] # NoFile THEN "cwd" ELSE "none"

\* ---------------------------------------------------------- actions
inputs == << runs, bnk_paths, wem_files, available_wems, wavs, can_shrink, tool_loc, unreadable >>

\* lines 460-464: scan the next bank; an invalid one is skipped
ParseBnkStep ==
    /\ pc = "scan"
    /\ b <= Len(bnk_paths)
    /\ LET st == parse_bnk(bnk_paths[b].bytes)
       IN  \/ /\ InvalidContainer(st)
              /\ data' = << >>
              /\ didx_offset' = -1
              /\ didx_size' = 0
              /\ data_payload_start' = -1
              /\ log' = Line("invalid", 0, 0, 0)
              /\ b' = b + 1
              /\ pc' = "scan"
           \/ /\ ~InvalidContainer(st)
              /\ data' = bnk_paths[b].bytes
              /\ didx_offset' = st.didx_offset
              /\ didx_size' = st.didx_size
              /\ data_payload_start' = st.data_payload_start
              /\ log' = Line("scanning", 0, 0, 0)
              /\ b' = b
              /\ pc' = "index"
    /\ UNCHANGED << extraction, inputs, temp_files, cwd_files, transcoded, bnk_index, k, att, final_inject_path,
                    current_size, files_patched, total_patched, out_files >>

\* lines 466-473: build the index; a record that cannot be decoded raises, the
\* handler of line 519 ends the batch and line 520 removes temp_dir
BuildIndexStep ==
    /\ pc = "index"
    /\ \/ /\ DecodeError(data, didx_offset, didx_size)
          /\ log' = Line("critical", 0, 0, 0)
          /\ temp_files' = NoFiles
          /\ pc' = "done"
          /\ UNCHANGED << bnk_index, files_patched, k >>
       \/ /\ ~DecodeError(data, didx_offset, didx_size)
          /\ bnk_index' = BuildIndex(data, didx_offset, didx_size)
          /\ files_patched' = 0
          /\ k' = 1
          /\ pc' = "wems"
          /\ UNCHANGED << log, temp_files >>
    /\ UNCHANGED << extraction, inputs, cwd_files, transcoded, b, data, didx_offset, didx_size, data_payload_start,
                    att, final_inject_path, current_size, total_patched, out_files >>

\* lines 474-502 for one replacement, up to the shrink search
WemStep ==
    /\ pc = "wems"
    /\ k <= Len(available_wems)
    /\ LET wem_id == available_wems[k]
           size == Len(wem_files[wem_id])
       IN  \/ /\ wem_id \notin DOMAIN bnk_index
              /\ k' = k + 1
              /\ UNCHANGED << pc, att, final_inject_path, current_size, log >>
           \/ /\ wem_id \in DOMAIN bnk_index
              /\ ~TooBig(size, bnk_index[wem_id].max_size)
              /\ final_inject_path' = "wem"
              /\ current_size' = size
              /\ pc' = "inject"
              /\ UNCHANGED << k, att, log >>
           \/ /\ wem_id \in DOMAIN bnk_index
              /\ TooBig(size, bnk_index[wem_id].max_size)
              /\ final_inject_path' = "wem"
              /\ current_size' = size
              /\ \/ /\ ~can_shrink
                    /\ log' = Line("too big", wem_id, size, bnk_index[wem_id].max_size)
                    /\ k' = k + 1
                    /\ UNCHANGED << pc, att >>
                 \/ /\ can_shrink
                    /\ wem_id \notin wavs
                    /\ log' = Line("no source wav", wem_id, size, bnk_index[wem_id].max_size)
                    /\ k' = k + 1
                    /\ UNCHANGED << pc, att >>
                 \/ /\ can_shrink
                    /\ wem_id \in wavs
                    /\ log' = Line("compressing", wem_id, size, bnk_index[wem_id].max_size)
                    /\ att' = 1
                    /\ pc' = "shrink"
                    /\ UNCHANGED k
    /\ UNCHANGED << extraction, inputs, temp_files, cwd_files, transcoded, b, data, didx_offset, didx_size,
                    data_payload_start, bnk_index, files_patched, total_patched, out_files >>

\* lines 491-499, one attempt: resample, transcode, probe for the output
\* (run_conversion, lines 315-339), measure it
ShrinkStep ==
    /\ pc = "shrink"
    /\ LET wem_id == available_wems[k]
           max_size == bnk_index[wem_id].max_size
       IN  \E compress_ok \in BOOLEAN :
           \E produced \in (IF compress_ok THEN ToolOutputs(att) ELSE {NoFile}) :
           LET temp1 == ToolWrites(temp_files, "output", wem_id, produced)
               cwd1 == ToolWrites(cwd_files, "cwd", wem_id, produced)
               found == IF compress_ok THEN Found(temp1, cwd1, wem_id) ELSE "none"
               temp2 == IF found = "cwd" THEN [temp1 EXCEPT ![wem_id] = cwd1[wem_id]] ELSE temp1
               cwd2 == IF found = "cwd" THEN [cwd1 EXCEPT ![wem_id] = NoFile] ELSE cwd1
               t_size == Len(temp2[wem_id])
           IN  /\ temp_files' = temp2
               /\ cwd_files' = cwd2
               /\ transcoded' = produced
               /\ \/ /\ found # "none"
                     /\ t_size <= max_size
                     /\ log' = Line("fits", wem_id, t_size, max_size)
                     /\ final_inject_path' = "t_wem"
                     /\ current_size' = t_size
                     /\ pc' = "inject"
                     /\ UNCHANGED << att, k >>
                  \/ /\ ~(found # "none" /\ t_size <= max_size)
                     /\ att < Len(attempts)
                     /\ att' = att + 1
                     /\ UNCHANGED << pc, k, log, final_inject_path, current_size >>
                  \/ /\ ~(found # "none" /\ t_size <= max_size)
                     /\ att = Len(attempts)
                     /\ log' = Line("failed to shrink", wem_id, current_size, max_size)
                     /\ k' = k + 1
                     /\ pc' = "wems"
                     /\ UNCHANGED << att, final_inject_path, current_size >>
    /\ UNCHANGED << extraction, inputs, b, data, didx_offset, didx_size, data_payload_start, bnk_index,
                    files_patched, total_patched, out_files >>

\* lines 504-512: read the bytes to inject and patch the buffer in place.
\* current_size is the size measured at line 479 or 497, new_content the bytes
\* read at line 505.  struct.pack_into raises when the buffer has become too
\* short for the record, and open raises when the file cannot be read; the
\* handler of line 519 then ends the batch.
InjectStep ==
    /\ pc = "inject"
    /\ LET wem_id == available_wems[k]
           slot == bnk_index[wem_id]
           abs_start == data_payload_start + slot.file_offset
           new_content == IF final_inject_path = "wem" THEN wem_files[wem_id] ELSE temp_files[wem_id]
           readable == final_inject_path # "wem" \/ wem_id \notin unreadable
       IN  \/ /\ ~readable
              /\ log' = Line("critical", wem_id, current_size, slot.max_size)
              /\ temp_files' = NoFiles
              /\ pc' = "done"
              /\ UNCHANGED << data, k, files_patched >>
           \/ /\ readable
              /\ Len(new_content) > slot.max_size
              /\ log' = Line("still too big", wem_id, Len(new_content), slot.max_size)
              /\ k' = k + 1
              /\ pc' = "wems"
              /\ UNCHANGED << data, files_patched, temp_files >>
           \/ /\ readable
              /\ Len(new_content) <= slot.max_size
              /\ PackRaises(data, abs_start, current_size, slot.max_size, slot.didx_pos, new_content)
              /\ data' = Overwrite(data, abs_start, current_size, slot.max_size, new_content)
              /\ log' = Line("critical", wem_id, current_size, slot.max_size)
              /\ temp_files' = NoFiles
              /\ pc' = "done"
              /\ UNCHANGED << k, files_patched >>
           \/ /\ readable
              /\ Len(new_content) <= slot.max_size
              /\ ~PackRaises(data, abs_start, current_size, slot.max_size, slot.didx_pos, new_content)
              /\ data' = InjectBytes(data, abs_start, current_size, slot.max_size,
                                     slot.didx_pos, new_content)
              /\ files_patched' = files_patched + 1
              /\ log' = Line("INJECTED", wem_id, current_size, slot.max_size)
              /\ k' = k + 1
              /\ pc' = "wems"
              /\ UNCHANGED temp_files
    /\ UNCHANGED << extraction, inputs, cwd_files, transcoded, b, didx_offset, didx_size,
                    data_payload_start, bnk_index, att, final_inject_path, current_size,
                    total_patched, out_files >>

\* the .wav files the concurrent convert_batch was given: 1.wav
ConvertIds == {1}

\* convert_batch, lines 431-437, on the thread run_convert starts: a .wav is
\* converted and run_conversion leaves the result as <id>.wem in the output
\* folder, here the folder patch_batch listed as wem_dir.  Only a file that
\* patch_batch listed matters to it.
ConvertBatchStep ==
    /\ pc # "done"
    /\ \E i \in 1..Len(available_wems), n \in 1..MaxWem :
          /\ available_wems[i] \in ConvertIds
          /\ WemBytes(available_wems[i], n) # wem_files[available_wems[i]]
          /\ wem_files' = [wem_files EXCEPT ![available_wems[i]] = WemBytes(available_wems[i], n)]
    /\ UNCHANGED << extraction, unreadable, runs,
                    bnk_paths, available_wems, wavs, can_shrink, tool_loc, temp_files, cwd_files,
                    transcoded, pc, b, data, didx_offset, didx_size, data_payload_start,
                    bnk_index, k, att, final_inject_path, current_size, files_patched,
                    total_patched, out_files, log >>

\* lines 514-518: write the bank if anything was injected, go to the next bank
WriteBankStep ==
    /\ pc = "wems"
    /\ k > Len(available_wems)
    /\ \/ /\ files_patched > 0
          /\ out_files' = [out_files EXCEPT ![bnk_paths[b].name] = data]
          /\ total_patched' = total_patched + 1
          /\ log' = Line("saved", 0, 0, 0)
       \/ /\ files_patched = 0
          /\ log' = Line("no replacements", 0, 0, 0)
          /\ UNCHANGED << out_files, total_patched >>
    /\ b' = b + 1
    /\ pc' = "scan"
    /\ UNCHANGED << extraction, inputs, temp_files, cwd_files, transcoded, data, didx_offset, didx_size,
                    data_payload_start, bnk_index, k, att, final_inject_path, current_size,
                    files_patched >>

\* lines 520-521: the loop is over, temp_dir is removed, the count is shown
Finish ==
    /\ pc = "scan"
    /\ b > Len(bnk_paths)
    /\ temp_files' = NoFiles
    /\ log' = Line("complete", 0, 0, total_patched)
    /\ pc' = "done"
    /\ UNCHANGED << extraction, inputs, cwd_files, transcoded, b, data, didx_offset, didx_size, data_payload_start,
                    bnk_index, k, att, final_inject_path, current_size, files_patched,
                    total_patched, out_files >>

\* -------------------------------------------------------- Extractor
\* the state of the patch_batch thread and what it reads
patching == << inputs, temp_files, cwd_files, transcoded, pc, b, data, didx_offset, didx_size,
               data_payload_start, bnk_index, k, att, final_inject_path, current_size,
               files_patched, total_patched, out_files, log >>

\* what parse_bnk returned for the bank extract_batch is at
ExSt == parse_bnk(ex_data)

\* mutant: the blob written lacks the last byte of the slice
ExtractBlobShort(d, abs_start, fsize) == PySlice(d, abs_start, abs_start + fsize - 1)

\* line 411: the bytes written to <fid>.wem
ExtractBlob(d, abs_start, fsize) == PySlice(d, abs_start, abs_start + fsize)

\* lines 390-398: scan the next bank; an invalid one is skipped
ExtractParseStep ==
    /\ ex_pc = "scan"
    /\ ex_b <= Len(bnk_paths)
    /\ LET st == parse_bnk(bnk_paths[ex_b].bytes)
       IN  \/ /\ InvalidContainer(st)
              /\ ex_data' = << >>
              /\ ex_log' = Line("invalid", 0, 0, 0)
              /\ ex_b' = ex_b + 1
              /\ UNCHANGED << ex_pc, ex_i, ex_count >>
           \/ /\ ~InvalidContainer(st)
              /\ ex_data' = bnk_paths[ex_b].bytes
              /\ ex_log' = Line("processing", 0, 0, 0)
              /\ ex_i' = 0
              /\ ex_count' = 0
              /\ ex_pc' = "records"
              /\ UNCHANGED ex_b
    /\ UNCHANGED << ex_files, ex_total, patching >>

\* lines 402-422 for one record: unpack it, write its slice to <fid>.wem.  A
\* record that cannot be unpacked raises struct.error, which nothing catches:
\* the thread ends there.
ExtractRecordStep ==
    /\ ex_pc = "records"
    /\ ex_i < num_files(ExSt.didx_size)
    /\ LET pos == ExSt.didx_offset + ex_i * 12
       IN  \/ /\ pos + 12 > Len(ex_data)
              /\ ex_pc' = "crashed"
              /\ UNCHANGED << ex_i, ex_files, ex_count >>
           \/ /\ pos + 12 <= Len(ex_data)
              /\ LET fid == U32(ex_data, pos)
                     abs_start == ExSt.data_payload_start + U32(ex_data, pos + 4)
                     fsize == U32(ex_data, pos + 8)
                 IN  ex_files' = [ex_files EXCEPT ![bnk_paths[ex_b].name][fid] =
                                      ExtractBlob(ex_data, abs_start, fsize)]
              /\ ex_count' = ex_count + 1
              /\ ex_i' = ex_i + 1
              /\ UNCHANGED ex_pc
    /\ UNCHANGED << ex_b, ex_data, ex_total, ex_log, patching >>

\* line 423: every record of the bank is done; go to the next bank
ExtractBankDone ==
    /\ ex_pc = "records"
    /\ ex_i = num_files(ExSt.didx_size)
    /\ ex_log' = Line("extracted", 0, ex_count, 0)
    /\ ex_total' = ex_total + ex_count
    /\ ex_b' = ex_b + 1
    /\ ex_pc' = "scan"
    /\ UNCHANGED << ex_i, ex_data, ex_files, ex_count, patching >>

\* line 424: the loop is over, the total is shown
ExtractFinish ==
    /\ ex_pc = "scan"
    /\ ex_b > Len(bnk_paths)
    /\ ex_log' = Line("done", 0, ex_total, 0)
    /\ ex_pc' = "done"
    /\ UNCHANGED << ex_b, ex_i, ex_data, ex_files, ex_count, ex_total, patching >>

\* extract_batch on one bank of any shape, or on two of the special banks; no
\* patch_batch runs
InitExtract ==
    /\ bnk_paths \in { << [name |-> "a.bnk", bytes |-> bk] >> : bk \in Banks }
                     \cup { << [name |-> "a.bnk", bytes |-> x], [name |-> "b.bnk", bytes |-> y] >> :
                                x \in SpecialBanks, y \in SpecialBanks }
    /\ wem_files = NoFiles
    /\ available_wems = << >>
    /\ unreadable = {}
    /\ can_shrink = FALSE
    /\ tool_loc = "output"
    /\ wavs = {}
    /\ InitRest

NextExtract == ExtractParseStep \/ ExtractRecordStep \/ ExtractBankDone \/ ExtractFinish

SpecExtract == InitExtract /\ [][NextExtract]_vars

\* ------------------------------------------------------ patch thread
Next == ParseBnkStep \/ BuildIndexStep \/ WemStep \/ ShrinkStep \/ InjectStep
        \/ WriteBankStep \/ Finish \/ ConvertBatchStep

Spec == Init /\ [][Next]_vars

\* ------------------------------------------------ shared vocabulary
\* the bank file being processed, as it is on disk
Orig == bnk_paths[b].bytes

\* the index of the current bank is built and its replacements are being processed
InRun == pc \in {"wems", "shrink", "inject"}

\* the asset the loop over available_wems is at
CurId == available_wems[k]

\* the used_size a record held in the file the index was built from
CapAtBuild(id) == U32(Orig, bnk_index[id].didx_pos + 8)

\* the first byte of the slot of an indexed asset
PayloadOffset(id) == data_payload_start + bnk_index[id].file_offset

\* the bytes InjectStep reads from final_inject_path
NewContent ==
    IF final_inject_path = "wem" THEN wem_files[CurId] ELSE temp_files[CurId]

\* this step is one of patch_batch, not a write of the concurrent convert_batch
PatchStep == wem_files' = wem_files

\* this step is a successful inject
Injects == pc = "inject" /\ files_patched' = files_patched + 1

\* the slot of an indexed asset lies inside the buffer and apart from the
\* records of the DIDX chunk
SlotSound(id) ==
    /\ PayloadOffset(id) + bnk_index[id].max_size <= Len(data)
    /\ \/ PayloadOffset(id) + bnk_index[id].max_size <= didx_offset
       \/ didx_offset + didx_size <= PayloadOffset(id)

\* the byte at Python position p, -1 where the buffer has none
ByteAt(s, p) == IF p < Len(s) THEN s[p + 1] ELSE -1

\* ------------------------------------------------------------- C1
\* C1: whenever a patched bank has just been written out, the bytes written
\* are exactly as many as the bank file that was read in.
C1_LengthPreserved ==
    (log.ev = "saved" /\ pc = "scan")
        => Len(out_files[bnk_paths[b - 1].name]) = Len(bnk_paths[b - 1].bytes)

\* ------------------------------------------------------------- C2
\* the used_size field of record i as the buffer d holds it, -1 where the
\* buffer ends before the field does
UsedSizeIn(d, i) ==
    IF didx_offset + i * 12 + 12 <= Len(d) THEN U32(d, didx_offset + i * 12 + 8) ELSE -1

FieldBeforeSlots(i) ==
    \A id \in DOMAIN bnk_index : didx_offset + i * 12 + 12 <= PayloadOffset(id)

C3_CapacityFixedAtBuild ==
    [][ /\ InRun => \A id \in DOMAIN bnk_index : bnk_index[id].max_size = CapAtBuild(id)
        /\ (InRun /\ pc' \in {"wems", "shrink", "inject"}) => bnk_index' = bnk_index
        /\ Injects => (Len(NewContent) <= CapAtBuild(CurId) /\ current_size <= CapAtBuild(CurId))
        /\ (pc = "wems" /\ k <= Len(available_wems) /\ CurId \in DOMAIN bnk_index /\ ~can_shrink
               /\ PatchStep)
              => ((pc' = "inject") <=> (Len(wem_files[CurId]) <= CapAtBuild(CurId)))
      ]_vars

\* a replacement shorter than the slot was injected: the stored used_size is now
\* smaller than the capacity the index still holds
C3_Witness ==
    /\ log.ev = "INJECTED"
    /\ pc = "wems"
    /\ log.size < bnk_index[log.id].max_size
    /\ U32(data, bnk_index[log.id].didx_pos + 8) = log.size
    /\ bnk_index[log.id].max_size = U32(Orig, bnk_index[log.id].didx_pos + 8)

\* ------------------------------------------------------------- C4
\* C4: a successful inject of n bytes into a slot that lies inside the buffer
\* and apart from the index records leaves the replacement bytes at
\* [payload_offset, payload_offset + n) and n in the used_size field of the
\* record, n being the number of bytes read from the injected file.
C4_InjectWritesSlotAndSize ==
    [][ (Injects /\ SlotSound(CurId)) =>
          LET n == Len(NewContent)
              po == PayloadOffset(CurId)
          IN  /\ \A i \in 0..(n - 1) : ByteAt(data', po + i) = NewContent[i + 1]
              /\ PySlice(data', bnk_index[CurId].didx_pos + 8, bnk_index[CurId].didx_pos + 12) = LE32(n)
      ]_vars

\* ------------------------------------------------------------- C5
\* C5: after a successful inject of n bytes into a slot of capacity c > n that
\* lies inside the buffer and apart from the index records, every byte the
\* buffer holds in [payload_offset + n, payload_offset + c) is zero.
C5_PaddingIsZero ==
    [][ (Injects /\ SlotSound(CurId)) =>
          LET n == Len(NewContent)
              c == bnk_index[CurId].max_size
              po == PayloadOffset(CurId)
          IN  \A p \in (po + n)..(po + c - 1) : p < Len(data') => data'[p + 1] = 0
      ]_vars

\* ------------------------------------------------------------- C6
\* C6: a successful inject into a slot that lies inside the buffer and apart
\* from the index records changes no byte outside the slot
\* [payload_offset, payload_offset + capacity) and the 4-byte used_size field of
\* the record: every other position holds the byte it held, and holds none if it
\* held none.
C6_InjectFrame ==
    [][ (Injects /\ SlotSound(CurId)) =>
          LET c == bnk_index[CurId].max_size
              po == PayloadOffset(CurId)
              fld == bnk_index[CurId].didx_pos + 8
          IN  \A p \in 0..(Max(Len(data), Len(data')) - 1) :
                 (~(po <= p /\ p < po + c) /\ ~(fld <= p /\ p < fld + 4))
                     => ByteAt(data', p) = ByteAt(data, p)
      ]_vars

\* ------------------------------------------------------------- C7
\* the replacement for this asset cannot be injected: the asset is not in the
\* index, or the replacement is larger than the capacity the record held at
\* index build and no shrink search can run
Rejected(id) ==
    \/ id \notin DOMAIN bnk_index
    \/ /\ Len(wem_files[id]) > CapAtBuild(id)
       /\ (~can_shrink \/ id \notin wavs)

\* C7: no step taken for a replacement that cannot be injected (unknown asset,
\* slot too small without a shrink search), and no step of a shrink search,
\* changes the buffer, counts an injection or writes an output file; when the
\* search is exhausted the loop moves on to the next replacement.
C7_FailedInjectLeavesBank ==
    [][ (InRun /\ k <= Len(available_wems)) =>
          /\ (Rejected(CurId) \/ pc = "shrink")
                => /\ data' = data
                   /\ files_patched' = files_patched
                   /\ out_files' = out_files
                   /\ (log' # log => log'.ev # "INJECTED")
          /\ (pc = "shrink" /\ log' # log /\ log'.ev = "failed to shrink")
                => (pc' = "wems" /\ k' = k + 1)
      ]_vars

\* a shrink search has just been exhausted for a replacement larger than its
\* slot: nothing is counted and the buffer is still the bank file
C7_Witness ==
    /\ pc = "wems"
    /\ k > 1
    /\ log.ev = "failed to shrink"
    /\ Len(wem_files[log.id]) > bnk_index[log.id].max_size
    /\ files_patched = 0
    /\ data = Orig

\* ------------------------------------------------------------- C8
\* C8: when the replacement folder is what extraction produced from the bank
\* itself, the buffer after every replacement has been processed is
\* byte-identical to the bank file.
C8_RoundTrip ==
    (pc = "wems" /\ k > Len(available_wems) /\ wem_files = ExtractAll(Orig)) => data = Orig

\* ------------------------------------------------------------- C9
\* C9: for a slot that lies inside the buffer and apart from the index records,
\* applying the inject of lines 508-511 a second time, with the same slot, the
\* same measured size and the same bytes, to the buffer the first application
\* produced gives that same buffer.
C9_Idempotent ==
    (pc = "inject" /\ Len(NewContent) <= bnk_index[CurId].max_size /\ SlotSound(CurId)) =>
        LET slot == bnk_index[CurId]
            once == InjectBytes(data, PayloadOffset(CurId), current_size, slot.max_size,
                                slot.didx_pos, NewContent)
        IN  InjectBytes(once, PayloadOffset(CurId), current_size, slot.max_size,
                        slot.didx_pos, NewContent) = once

\* ------------------------------------------------------------ C10
\* C10: the search starts at the first entry of the attempt list and moves one
\* entry at a time; an attempt whose transcoded output is at most the capacity
\* is selected at once, with that output as the blob to inject; nothing but the
\* current attempt's own fitting output is ever selected; and the bytes injected
\* after a search are the output of the selected attempt.
C10_FirstFitSelected ==
    [][ /\ (pc # "shrink" /\ pc' = "shrink") => att' = 1
        /\ (pc = "shrink" /\ PatchStep) =>
             LET cap == bnk_index[CurId].max_size
             IN  /\ (transcoded' # NoFile /\ Len(transcoded') <= cap)
                       => (pc' = "inject" /\ final_inject_path' = "t_wem"
                           /\ temp_files'[CurId] = transcoded')
                 /\ pc' = "inject"
                       => (transcoded' # NoFile /\ temp_files'[CurId] = transcoded'
                           /\ Len(transcoded') <= cap /\ att' = att)
                 /\ pc' = "shrink" => att' = att + 1
        /\ (Injects /\ final_inject_path = "t_wem") => NewContent = transcoded
      ]_vars


\* ------------------------------------------------------------ batches
\* banks of the two-bank batches: asset 1 in a slot of one byte, asset 1 in a
\* slot of MaxUsed bytes, assets 1 and 2 in slots of one byte, a bank without a
\* DATA chunk, and a bank whose declared index size runs past the end of the file
BatchBanks ==
    { BankDidxData(<< [id |-> 1, off |-> 0, used |-> 1] >>),
      BankDidxData(<< [id |-> 1, off |-> 0, used |-> MaxUsed] >>),
      BankDidxData(<< [id |-> 1, off |-> 0, used |-> 1], [id |-> 2, off |-> 1, used |-> 1] >>),
      Chunk(TagDIDX, 12, Record(OneRec)) \o Chunk(TagBKHD, 1, << 7 >>),
      Chunk(TagDATA, DataLen, Payload(DataLen)) \o Chunk(TagDIDX, 24, Record(OneRec) \o << 9, 9, 9, 9, 9 >>) }

Batches(S) ==
    { << [name |-> "a.bnk", bytes |-> x], [name |-> "b.bnk", bytes |-> y] >> : x \in S, y \in S }

\* two banks, auto-shrink off; one of the replacement files may be unreadable
InitBatchPlain ==
    /\ bnk_paths \in Batches(BatchBanks)
    /\ wem_files \in WemDirs
    /\ available_wems \in Orders(Present(wem_files))
    /\ unreadable \in {{}} \cup { {id} : id \in Present(wem_files) }
    /\ can_shrink = FALSE
    /\ tool_loc = "output"
    /\ wavs = {}
    /\ InitRest

\* two banks that hold asset 1, a replacement too big for either slot,
\* auto-shrink on
InitBatchShrink ==
    /\ bnk_paths \in Batches({ BankDidxData(<< [id |-> 1, off |-> 0, used |-> u] >>) : u \in 1..MaxUsed })
    /\ wem_files = [id \in WemIds |-> IF id = 1 THEN WemBytes(1, MaxWem) ELSE NoFile]
    /\ available_wems = << 1 >>
    /\ unreadable = {}
    /\ can_shrink = TRUE
    /\ tool_loc \in {"output", "cwd"}
    /\ wavs = {1}
    /\ InitRest

InitBatch == InitBatchPlain \/ InitBatchShrink

\* patch_batch on a batch of two banks
SpecBatch == InitBatch /\ [][Next]_vars

\* patch_batch and extract_batch, each on its own thread, on the same two banks
InitBothPlain ==
    /\ bnk_paths \in Batches(SpecialBanks)
    /\ wem_files \in WemDirs
    /\ available_wems \in Orders(Present(wem_files))
    /\ unreadable = {}
    /\ can_shrink = FALSE
    /\ tool_loc = "output"
    /\ wavs = {}
    /\ InitRest

\* the same with auto-shrink on: a bank without a DIDX chunk and a bank that
\* holds asset 1 in a slot of one byte, and a replacement too big for the slot
InitBothShrink ==
    /\ bnk_paths \in Batches({ Chunk(TagBKHD, 1, << 7 >>) \o Chunk(TagDATA, DataLen, Payload(DataLen)),
                                BankDidxData(<< [id |-> 1, off |-> 0, used |-> 1] >>) })
    /\ wem_files = [id \in WemIds |-> IF id = 1 THEN WemBytes(1, MaxWem) ELSE NoFile]
    /\ available_wems = << 1 >>
    /\ unreadable = {}
    /\ can_shrink = TRUE
    /\ tool_loc = "output"
    /\ wavs = {1}
    /\ InitRest

InitBoth == InitBothPlain \/ InitBothShrink

NextBoth ==
    \/ ParseBnkStep \/ BuildIndexStep \/ WemStep \/ ShrinkStep \/ InjectStep
    \/ WriteBankStep \/ Finish \/ ConvertBatchStep
    \/ ExtractParseStep \/ ExtractRecordStep \/ ExtractBankDone \/ ExtractFinish

SpecBoth == InitBoth /\ [][NextBoth]_vars

\* ------------------------------------------------------------ C11
\* C11: an attempt of the shrink search whose resample or transcode step fails
\* (the converter leaves no output) is never selected for injection, whatever
\* file an earlier attempt or an earlier bank left at the expected path; the
\* search moves to the next attempt, and after the last one the asset is skipped
\* with "failed to shrink"
C11_FailedAttemptNeverSelected ==
    [][ (pc = "shrink" /\ PatchStep /\ transcoded' = NoFile) =>
           /\ pc' # "inject"
           /\ att < Len(attempts) => (pc' = "shrink" /\ att' = att + 1)
           /\ att = Len(attempts) => (pc' = "wems" /\ k' = k + 1 /\ log'.ev = "failed to shrink")
      ]_vars

\* ------------------------------------------------------------ C12
\* C12: the output directory changes only by the write of the current bank's
\* buffer under that bank's name, and only when an asset of the bank was
\* injected; and when patch_batch leaves a bank, the bank's output file holds
\* the patched buffer if at least one of its assets was injected, while with no
\* injection nothing is written and a bank that was processed to its end is
\* logged as "no replacements"
C12_WrittenIffInjected ==
    [][ /\ out_files' # out_files =>
             /\ InRun /\ files_patched > 0
             /\ out_files' = [out_files EXCEPT ![bnk_paths[b].name] = data]
        /\ (InRun /\ pc' \in {"scan", "done"}) =>
             IF files_patched > 0
             THEN out_files'[bnk_paths[b].name] = data'
             ELSE out_files' = out_files /\ (pc' = "scan" => log'.ev = "no replacements")
      ]_vars

\* ------------------------------------------------------------ C13
\* C13: neither batch operation ends before every bank of the batch has been
\* scanned: patch_batch is done only after its loop has passed the last bank,
\* and extract_batch neither dies at a record nor finishes early
C13_BatchNeverAborts ==
    /\ pc = "done" => b > Len(bnk_paths)
    /\ ex_pc # "crashed"
    /\ ex_pc = "done" => ex_b > Len(bnk_paths)

\* ------------------------------------------------------------ C14
\* the scanner finds no DIDX chunk or no DATA chunk in these bytes
ChunkMissing(d) == parse_bnk(d).didx_offset = -1 \/ parse_bnk(d).data_payload_start = -1

\* C14: when the scanner finds no DIDX chunk or no DATA chunk in a bank, the
\* step of patch_batch at that bank logs it as invalid, builds no index, injects
\* and writes nothing and moves to the next bank, and the step of extract_batch
\* at that bank does the same without extracting or counting a file; no output
\* file and no extracted file of such a bank ever exists
C14_MissingChunkIsInvalid ==
    [][ /\ ( /\ pc = "scan" /\ b <= Len(bnk_paths) /\ ChunkMissing(bnk_paths[b].bytes)
              /\ PatchStep /\ extraction' = extraction ) =>
                /\ log'.ev = "invalid"
                /\ pc' = "scan" /\ b' = b + 1
                /\ data' = << >>
                /\ UNCHANGED << bnk_index, files_patched, total_patched, out_files >>
        /\ ( /\ ex_pc = "scan" /\ ex_b <= Len(bnk_paths) /\ ChunkMissing(bnk_paths[ex_b].bytes)
              /\ patching' = patching ) =>
                /\ ex_log'.ev = "invalid"
                /\ ex_pc' = "scan" /\ ex_b' = ex_b + 1
                /\ ex_data' = << >>
                /\ UNCHANGED << ex_files, ex_count, ex_total >>
        /\ \A i \in 1..Len(bnk_paths) :
              ChunkMissing(bnk_paths[i].bytes) =>
                 /\ out_files'[bnk_paths[i].name] = NoFile
                 /\ ex_files'[bnk_paths[i].name] = NoFiles
      ]_vars

\* after a first bank without one of the chunks, both operations went on to
\* the second bank: it was patched and written, and its asset was extracted
C14_Witness ==
    /\ ChunkMissing(bnk_paths[1].bytes)
    /\ pc = "done" /\ log.ev = "complete"
    /\ ex_pc = "done"
    /\ out_files["a.bnk"] = NoFile /\ out_files["b.bnk"] # NoFile
    /\ ex_files["a.bnk"] = NoFiles /\ ex_files["b.bnk"] # NoFiles

\* ------------------------------------------------------------ C17
\* C17: nothing left by an earlier bank reaches the processing of a bank.  The
\* index is built from the bank's own bytes with the count of injections at 0.
\* At the first attempt of a shrink search any file already at t_<id>.wem was
\* left by an earlier bank (the ids of one replacement listing are distinct), so
\* the attempt is selected exactly when the converter's own output for this bank
\* fits, and what is selected is that output.
C17_BanksIndependent ==
    [][ /\ (pc = "index" /\ pc' = "wems") =>
             /\ data = Orig
             /\ bnk_index' = BuildIndex(Orig, parse_bnk(Orig).didx_offset, parse_bnk(Orig).didx_size)
             /\ files_patched' = 0
        /\ (pc = "shrink" /\ att = 1 /\ PatchStep) =>
             LET fits == transcoded' # NoFile /\ Len(transcoded') <= bnk_index[CurId].max_size
             IN  /\ pc' = "inject" <=> fits
                 /\ pc' = "inject" =>
                       (temp_files'[CurId] = transcoded' /\ current_size' = Len(transcoded'))
      ]_vars

\* ------------------------------------------------------ successive runs
\* the banks of the batch that have a file in output_dir, as the next batch:
\* the same names, the bytes that were written
RECURSIVE OutputBatch(_, _)
OutputBatch(paths, outs) ==
    IF paths = << >> THEN << >>
    ELSE LET rest == OutputBatch(Tail(paths), outs)
             name == Head(paths).name
         IN  IF outs[name] # NoFile /\ \A i \in 1..Len(rest) : rest[i].name # name
             THEN << [name |-> name, bytes |-> outs[name]] >> \o rest
             ELSE rest

\* run_patch, lines 787-789, once the previous patch_batch has ended: the user
\* selects the banks it wrote and starts patch_batch on them with the same
\* folders; lines 443-458 bring the run to the head of its loop, with a new
\* temp_dir.  The working directory keeps what earlier runs left in it.
RunAgain ==
    /\ pc = "done"
    /\ Len(runs) + 1 < MaxRuns
    /\ OutputBatch(bnk_paths, out_files) # << >>
    /\ runs' = Append(runs, bnk_paths)
    /\ bnk_paths' = OutputBatch(bnk_paths, out_files)
    /\ temp_files' = NoFiles
    /\ transcoded' = NoFile
    /\ pc' = "scan"
    /\ b' = 1
    /\ total_patched' = 0
    /\ log' = Line("start", 0, 0, 0)
    /\ UNCHANGED << extraction, wem_files, available_wems, wavs, can_shrink, tool_loc, unreadable,
                    cwd_files, data, didx_offset, didx_size, data_payload_start, bnk_index, k, att,
                    final_inject_path, current_size, files_patched, out_files >>

NextRuns ==
    \/ ParseBnkStep \/ BuildIndexStep \/ WemStep \/ ShrinkStep \/ InjectStep
    \/ WriteBankStep \/ Finish \/ ConvertBatchStep \/ RunAgain

\* patch runs on one bank, each on the output of the one before.  The banks are
\* those of InitShrink: every slot inside the DATA payload, so that a patched
\* bank still has chunk headers and records the next run can decode.
SpecRuns == InitShrink /\ [][NextRuns]_vars

\* ------------------------------------------------------------ C21
\* the number of leading bytes of s that are replacement bytes: the bytes of
\* WemBytes and Blob are 100 and more, those of a generated payload and the
\* zero padding are less
RECURSIVE PatchedLen(_)
PatchedLen(s) ==
    IF s = << >> \/ Head(s) < 100 THEN 0 ELSE 1 + PatchedLen(Tail(s))

\* C21: in a run started on the output of the run before, the capacity the
\* index gives an asset is at most the capacity the run before gave it; when the
\* slot begins with n > 0 bytes of a replacement, the capacity is n; and a
\* replacement larger than that capacity does not go to the inject step as it is
C21_CapacityNonIncreasing ==
    [][ /\ (runs # << >> /\ pc = "index" /\ pc' = "wems") =>
             \A id \in DOMAIN bnk_index' :
                id \in DOMAIN bnk_index =>
                   LET cap1 == bnk_index[id].max_size
                       cap2 == bnk_index'[id].max_size
                       abs_start == data_payload_start + bnk_index'[id].file_offset
                       n == PatchedLen(PySlice(data, abs_start, abs_start + cap1))
                   IN  /\ cap2 <= cap1
                       /\ n > 0 => cap2 = n
        /\ ( /\ runs # << >> /\ pc = "wems" /\ PatchStep /\ k <= Len(available_wems)
              /\ CurId \in DOMAIN bnk_index
              /\ Len(wem_files[CurId]) > bnk_index[CurId].max_size ) =>
                ~(pc' = "inject" /\ final_inject_path' = "wem")
      ]_vars

\* ----------------------------------------------------- bank file names
\* batches of two bank files that hold asset 1, in two directories: the file
\* names are different or the same
NamedBatches ==
    { << [name |-> n1, bytes |-> BankDidxData(<< [id |-> 1, off |-> 0, used |-> u1] >>)],
         [name |-> n2, bytes |-> BankDidxData(<< [id |-> 1, off |-> 1, used |-> u2] >>)] >> :
         n1 \in BankNames, n2 \in BankNames, u1 \in 1..MaxUsed, u2 \in 1..MaxUsed }

\* patch_batch on such a batch with one replacement, 1.wem
InitNames ==
    /\ bnk_paths \in NamedBatches
    /\ wem_files \in { [id \in WemIds |-> IF id = 1 THEN WemBytes(1, n) ELSE NoFile] : n \in 1..MaxWem }
    /\ available_wems = << 1 >>
    /\ unreadable = {}
    /\ can_shrink \in BOOLEAN
    /\ tool_loc = "output"
    /\ wavs = {1}
    /\ InitRest

SpecNames == InitNames /\ [][Next]_vars

\* ------------------------------------------------------------ C22
\* C22: within one batch the write of a patched bank goes to a path no other
\* bank of the batch was written to, and holds that bank's patched buffer; and
\* the count patch_batch reports at the end is the number of patched files in
\* the output folder
C22_OwnOutputFile ==
    [][ /\ (pc = "wems" /\ out_files' # out_files) =>
             /\ out_files[bnk_paths[b].name] = NoFile
             /\ out_files' = [out_files EXCEPT ![bnk_paths[b].name] = data]
        /\ (pc = "scan" /\ pc' = "done") =>
             /\ log'.ev = "complete"
             /\ log'.max = Cardinality({ n \in BankNames : out_files'[n] # NoFile })
      ]_vars

\* ----------------------------------------- extraction vocabulary
\* the position of the record extract_batch is at
ExPos == ExSt.didx_offset + ex_i * 12

\* extract_batch is at a record whose 12 bytes lie inside the buffer
ExAtRecord == ex_pc = "records" /\ ex_i < num_files(ExSt.didx_size) /\ ExPos + 12 <= Len(ex_data)

\* asset_id, payload_offset and capacity of that record
ExId == U32(ex_data, ExPos)
ExPayloadOffset == ExSt.data_payload_start + U32(ex_data, ExPos + 4)
ExCapacity == U32(ex_data, ExPos + 8)

\* the folder extract_batch writes the files of the bank it is at into
ExFolder == ex_files[bnk_paths[ex_b].name]

\* ------------------------------------------------------------ C15
\* C15: a step of extraction at an index entry whose payload_offset + capacity
\* exceeds the container length writes no file and counts nothing, and moves on
\* to the next record.
C15_OutOfBoundsEntrySkipped ==
    [][ (ExAtRecord /\ ExPayloadOffset + ExCapacity > Len(ex_data)) =>
          /\ ex_files' = ex_files
          /\ ex_count' = ex_count
          /\ ex_i' = ex_i + 1
          /\ ex_pc' = "records"
      ]_vars

\* ------------------------------------------------------------ C16
\* C16: a step of extraction at an index entry that lies within the container
\* leaves, under the name of its asset_id, exactly the bytes
\* container[payload_offset : payload_offset + capacity], counts the file, and
\* changes neither the buffer nor the bank file nor any other file; and when a
\* bank is done, the file of every indexed asset whose slot lies within the
\* container holds the bytes of that slot.
C16_ExtractEmitsSlot ==
    [][ /\ (ExAtRecord /\ ExPayloadOffset + ExCapacity <= Len(ex_data)) =>
              /\ ExFolder'[ExId] = [i \in 1..ExCapacity |-> ex_data[ExPayloadOffset + i]]
              /\ \A id \in WemIds \ {ExId} : ExFolder'[id] = ExFolder[id]
              /\ \A n \in BankNames \ {bnk_paths[ex_b].name} : ex_files'[n] = ex_files[n]
              /\ ex_count' = ex_count + 1
              /\ ex_data' = ex_data
              /\ bnk_paths' = bnk_paths
        /\ (ex_pc = "records" /\ ex_pc' = "scan") =>
              LET ix == BuildIndex(ex_data, ExSt.didx_offset, ExSt.didx_size)
              IN  \A id \in DOMAIN ix :
                     LET po == ExSt.data_payload_start + ix[id].file_offset
                     IN  po + ix[id].max_size <= Len(ex_data)
                            => ExFolder[id] = [i \in 1..ix[id].max_size |-> ex_data[po + i]]
      ]_vars

\* a bank has been extracted whose record for asset 1 has the slot of MaxUsed
\* bytes at the start of the DATA payload: 1.wem holds those bytes
C16_Witness ==
    /\ ex_pc = "scan"
    /\ ex_log.ev = "extracted"
    /\ ex_log.size >= 1
    /\ ex_files["a.bnk"][1] = SubSeq(Payload(DataLen), 1, MaxUsed)


\* ------------------------------------------------------------ C18
\* C18: scanning a bank records every chunk whose header is reached by starting
\* at offset 0 and advancing by 8 + size while at least 8 bytes remain: the
\* last DATA header so reached gives data_payload_start = header offset + 8, the
\* last DIDX header gives didx_offset = header offset + 8 and didx_size = its
\* size, also when the header occupies the last 8 bytes of the buffer.
C18_HeaderAtEndIsRead ==
    [][ (pc = "scan" /\ b <= Len(bnk_paths) /\ PatchStep) =>
          LET d == bnk_paths[b].bytes
              RECURSIVE Headers(_)
              Headers(offset) ==
                  IF offset + 8 <= Len(d)
                  THEN {offset} \cup Headers(offset + 8 + U32(d, offset + 4))
                  ELSE {}
              Tagged(tag) == { h \in Headers(0) : SubSeq(d, h + 1, h + 4) = tag }
              Last(S) == CHOOSE h \in S : \A g \in S : g <= h
          IN  /\ Tagged(TagDATA) # {} =>
                    (pc' = "index" => data_payload_start' = Last(Tagged(TagDATA)) + 8)
              /\ Tagged(TagDIDX) # {} =>
                    (pc' = "index" => /\ didx_offset' = Last(Tagged(TagDIDX)) + 8
                                      /\ didx_size' = U32(d, Last(Tagged(TagDIDX)) + 4))
              /\ (Tagged(TagDATA) # {} /\ Tagged(TagDIDX) # {}) => pc' = "index"
      ]_vars


\* ------------------------------------------------------------ C19
\* C19: for every bank the scanner accepted, the index build step completes:
\* the loop over the replacements is entered, no error is logged, and every
\* index entry is one of the floor(didx_size / 12) records of the DIDX chunk.
C19_IndexBuildNeverFails ==
    [][ (pc = "index" /\ PatchStep) =>
          /\ pc' = "wems"
          /\ log'.ev # "critical"
          /\ \A id \in DOMAIN bnk_index' :
                \E i \in 0..(num_files(didx_size) - 1) :
                    bnk_index'[id].didx_pos = didx_offset + i * 12
      ]_vars


\* ------------------------------------------------------------ C20
\* C20: the index maps every asset_id to the last record of the bank file with
\* that id; and a successful inject for an id leaves untouched the 12 bytes of
\* every earlier record with that id and the bytes of its slot, where both
\* slots lie inside the buffer, apart from the index records and from each
\* other.
C20_LastDuplicateWins ==
    [][ LET n == num_files(didx_size)
            pos(i) == didx_offset + i * 12
            idOf(i) == U32(Orig, pos(i))
            offOf(i) == data_payload_start + U32(Orig, pos(i) + 4)
            capOf(i) == U32(Orig, pos(i) + 8)
            sound(i) == /\ offOf(i) + capOf(i) <= Len(data)
                        /\ \/ offOf(i) + capOf(i) <= didx_offset
                           \/ didx_offset + didx_size <= offOf(i)
        IN  /\ InRun => \A id \in DOMAIN bnk_index :
                          \E i \in 0..(n - 1) :
                             /\ idOf(i) = id
                             /\ \A j \in (i + 1)..(n - 1) : idOf(j) # id
                             /\ bnk_index[id] = [didx_pos |-> pos(i),
                                                 file_offset |-> U32(Orig, pos(i) + 4),
                                                 max_size |-> capOf(i)]
            /\ (Injects /\ SlotSound(CurId)) =>
                  \A i \in 0..(n - 1) :
                     ( /\ idOf(i) = CurId
                       /\ pos(i) # bnk_index[CurId].didx_pos
                       /\ sound(i)
                       /\ \/ offOf(i) + capOf(i) <= PayloadOffset(CurId)
                          \/ PayloadOffset(CurId) + bnk_index[CurId].max_size <= offOf(i) )
                     => /\ \A p \in pos(i)..(pos(i) + 11) : ByteAt(data', p) = ByteAt(data, p)
                        /\ \A p \in offOf(i)..(offOf(i) + capOf(i) - 1) :
                              ByteAt(data', p) = ByteAt(data, p)
      ]_vars

============================================================================
